---- MODULE Spec2Model ----
(***************************************************************************)
(* The scenario controller of modules/planning/scenarios/scenario.cc:      *)
(* Scenario::Init and Scenario::Process, for a process that hosts several  *)
(* controllers sharing one planning context.  Stages and the stage factory *)
(* are external: their answers are inputs of each call.                    *)
(***************************************************************************)
EXTENDS Integers, Sequences, FiniteSets, TLC

\* ------------------------------------------------------------------ bounds
\* longest declared stage sequence (config_.stage_type)
MaxDeclared == 2
\* most configuration blocks in a configuration (config_.stage_config)
MaxBlocks == 2
\* factory invocations modelled per controller
MaxFactoryCalls == 3
\* the self-loop counter saturates here
MaxLoop == 2
\* the counter of RUNNING calls saturates here
MaxStuck == 2

\* ------------------------------------------------------------------ values
\* the sentinel stage type
NO_STAGE == "NO_STAGE"
\* the stage-type tags of the model
StageTypes == {NO_STAGE, "X", "Y"}
\* scenario-type tags
ScenarioTypes == {"LANE_FOLLOW", "PULL_OVER"}
\* the controllers a process can host
Scenarios == {"s1", "s2"}
\* what a stage's Process can return; OTHER is any value outside the three cases
StageStatuses == {"ERROR", "RUNNING", "FINISHED", "OTHER"}
\* what the stage factory can answer
FactoryResults == {"ok", "fail"}

STATUS_UNKNOWN == "STATUS_UNKNOWN"
STATUS_PROCESSING == "STATUS_PROCESSING"
STATUS_DONE == "STATUS_DONE"

\* current_stage_ == nullptr
NullStage == [type |-> "NULL", cfg |-> 0, id |-> 0]

\* sequences over S of length lo..hi
SeqsOf(S, lo, hi) == UNION {[1..n -> S] : n \in lo..hi}

Range(s) == {s[i] : i \in DOMAIN s}

\* ------------------------------------------------------------------ state
VARIABLES
  config_,            \* per controller: scenario_type, stage_type, stage_config
  stage_config_map_,  \* per controller: stage type -> index of its block
  current_stage_,     \* per controller: the owned stage instance or NullStage
  scenario_status_,   \* per controller: the stored aggregate status
  factory_calls,      \* per controller: CreateStage invocations so far
  live,               \* per controller: ids of constructed, not destroyed stages
  planning_context,   \* the scenario-identity field of the shared context
  aborted,            \* an ACHECK failed: the process is gone
  inited,             \* per controller: Init has returned
  ret,                \* per controller: what its latest Process call returned
  lastInit,           \* the controller that most recently called Init
  last,               \* per controller: its latest call, what it saw and did
  seen,               \* per controller: a call has taken the sentinel exit
  runA,               \* per controller: returns so far along scenario A
  loopN,              \* per controller: self-loop calls since Init, -1 if left
  replay,             \* whether two controllers have had the same calls so far
  stuckN,             \* per controller: RUNNING calls since Init, -1 if left
  attempts            \* per controller: transition attempts seen so far

vars == <<config_, stage_config_map_, current_stage_, scenario_status_,
          factory_calls, live, planning_context, aborted, inited, ret,
          lastInit, last, seen, runA, loopN, replay, stuckN, attempts>>

\* ------------------------------------------------------------------ helpers
\* common::util::ContainsKey / stage_config_map_.find(k) != end()
ContainsKey(map, k) == k \in DOMAIN map

\* stage_config_map_[k] = v
Put(map, k, v) == [x \in (DOMAIN map) \cup {k} |-> IF x = k THEN v ELSE map[x]]

\* the empty index
EmptyMap == [x \in {} |-> 0]

\* the first loop of Init: every block is entered under its own stage type,
\* a later block of the same type replacing an earlier one
RECURSIVE BuildMapShort(_, _, _)
BuildMapShort(blocks, i, map) ==
  IF i >= Len(blocks) THEN map
  ELSE BuildMapShort(blocks, i + 1, Put(map, blocks[i], i))
RECURSIVE BuildMap(_, _, _)
BuildMap(blocks, i, map) ==
  IF i > Len(blocks) THEN map
  ELSE BuildMap(blocks, i + 1, Put(map, blocks[i], i))

\* the second loop of Init: every declared stage type has an entry
CoverageFirstOnly(declared, map) == ContainsKey(map, declared[1])
CheckCoverage(declared, map) ==
  \A i \in 1..Len(declared) : ContainsKey(map, declared[i])

\* the stage factory: an instance of the block's stage type, or nothing
CreateStage(blocks, cfg, fac, id) ==
  IF fac = "ok" THEN [type |-> blocks[cfg], cfg |-> cfg, id |-> id]
  ELSE NullStage

\* current_stage_ = <new>: the owning pointer destroys what it held
AssignLeak(liveSet, old, new) ==
  liveSet \cup (IF new = NullStage THEN {} ELSE {new.id})
Assign(liveSet, old, new) ==
  (liveSet \ {old.id}) \cup (IF new = NullStage THEN {} ELSE {new.id})

\* scenario->Clear(); scenario->set_scenario_type(scenario_type())
WriteKeepFirst(ctx, type) == IF ctx = "NOT_SET" THEN type ELSE ctx
WriteScenarioType(ctx, type) == type

\* ------------------------------------------------------------------ Process
\* What one Process call does to a controller.  self is the controller
\* (current_stage_, stage_config_map_, scenario_status_, blocks); in is what
\* the collaborators answer if asked (outcome, next, fac); id names the
\* instance the factory would construct.  The result carries the new handle
\* and stored status, the returned status, and which collaborators were
\* called: ran (the stage's Process), asked (NextStage), invoked (factory).
Result(stage, status, r, ran, asked, invoked, exit) ==
  [stage |-> stage, status |-> status, ret |-> r, ran |-> ran,
   asked |-> asked, invoked |-> invoked, exit |-> exit]

\* if (next_stage != current_stage_->stage_type())
NeedSwitchAlways(next, cs) == TRUE
NeedSwitch(next, cs) == next # cs.type

\* the block handed to the factory at a transition: *stage_config_map_[next]
SuccessorConfigOwn(map, next, cs) == map[cs.type]
SuccessorConfig(map, next, cs) == map[next]

\* no entry for the successor: STATUS_UNKNOWN, handle untouched
OnMissingConfigReset(self) ==
  Result(NullStage, STATUS_UNKNOWN, STATUS_UNKNOWN, TRUE, TRUE, FALSE,
         "no_config")
OnMissingConfig(self) ==
  Result(self.current_stage_, STATUS_UNKNOWN, STATUS_UNKNOWN, TRUE, TRUE,
         FALSE, "no_config")

\* the closing test of the FINISHED case
StatusAfterFinishedDone(stage) == STATUS_DONE
StatusAfterFinished(stage) ==
  IF stage # NullStage /\ stage.type # NO_STAGE THEN STATUS_PROCESSING
  ELSE STATUS_DONE

\* FINISHED with a successor other than the stage's own type
SwitchStage(self, in, id) ==
  LET cs == self.current_stage_ IN
  IF in.next = NO_STAGE
  THEN Result(cs, STATUS_DONE, STATUS_DONE, TRUE, TRUE, FALSE, "sentinel_next")
  ELSE IF ~ContainsKey(self.stage_config_map_, in.next)
  THEN OnMissingConfig(self)
  ELSE LET new == CreateStage(self.blocks,
                    SuccessorConfig(self.stage_config_map_, in.next, cs),
                    in.fac, id) IN
       IF new = NullStage
       THEN Result(new, self.scenario_status_, STATUS_UNKNOWN, TRUE, TRUE,
                   TRUE, "create_failed")
       ELSE Result(new, StatusAfterFinished(new), StatusAfterFinished(new),
                   TRUE, TRUE, TRUE, "switched")

\* case Stage::FINISHED
OnFinishedStay(self, in, id) ==
  LET cs == self.current_stage_ IN
  Result(cs, StatusAfterFinished(cs), StatusAfterFinished(cs), TRUE, TRUE,
         FALSE, "finished_self")
OnFinished(self, in, id) ==
  LET cs == self.current_stage_ IN
  IF NeedSwitch(in.next, cs) THEN SwitchStage(self, in, id)
  ELSE Result(cs, StatusAfterFinished(cs), StatusAfterFinished(cs), TRUE,
              TRUE, FALSE, "finished_self")

\* case Stage::RUNNING
OnRunningDone(self) ==
  Result(self.current_stage_, STATUS_DONE, STATUS_DONE, TRUE, FALSE, FALSE,
         "running")
OnRunningAsk(self) ==
  Result(self.current_stage_, STATUS_PROCESSING, STATUS_PROCESSING, TRUE,
         TRUE, FALSE, "running")
OnRunning(self) ==
  Result(self.current_stage_, STATUS_PROCESSING, STATUS_PROCESSING, TRUE,
         FALSE, FALSE, "running")

\* the switch over the stage's outcome
OnOutcomeAbort(self, in, id) ==
  LET cs == self.current_stage_ IN
  CASE in.outcome = "ERROR" ->
         Result(NullStage, STATUS_UNKNOWN, STATUS_UNKNOWN, TRUE, FALSE, FALSE,
                "error")
    [] in.outcome = "RUNNING" -> OnRunning(self)
    [] in.outcome = "FINISHED" -> OnFinished(self, in, id)
    [] OTHER ->
         Result(cs, STATUS_UNKNOWN, STATUS_UNKNOWN, TRUE, FALSE, FALSE, "other")
OnOutcome(self, in, id) ==
  LET cs == self.current_stage_ IN
  CASE in.outcome = "ERROR" ->
         Result(cs, STATUS_UNKNOWN, STATUS_UNKNOWN, TRUE, FALSE, FALSE, "error")
    [] in.outcome = "RUNNING" -> OnRunning(self)
    [] in.outcome = "FINISHED" -> OnFinished(self, in, id)
    [] OTHER ->
         Result(cs, STATUS_UNKNOWN, STATUS_UNKNOWN, TRUE, FALSE, FALSE, "other")

\* Scenario::Process as a function of the controller and the answers
ProcessResultSticky(self, in, id) ==
  LET cs == self.current_stage_ IN
  IF cs = NullStage
  THEN Result(cs, self.scenario_status_, STATUS_UNKNOWN, FALSE, FALSE, FALSE,
              "null")
  ELSE IF cs.type = NO_STAGE \/ self.scenario_status_ = STATUS_DONE
  THEN Result(cs, STATUS_DONE, STATUS_DONE, FALSE, FALSE, FALSE,
              "sentinel_stage")
  ELSE OnOutcome(self, in, id)
ProcessResultNullDone(self, in, id) ==
  LET cs == self.current_stage_ IN
  IF cs = NullStage \/ cs.type = NO_STAGE
  THEN Result(cs, STATUS_DONE, STATUS_DONE, FALSE, FALSE, FALSE,
              "sentinel_stage")
  ELSE OnOutcome(self, in, id)
ProcessResultNoGuard(self, in, id) ==
  LET cs == self.current_stage_ IN
  IF cs = NullStage
  THEN Result(cs, self.scenario_status_, STATUS_UNKNOWN, FALSE, FALSE, FALSE,
              "null")
  ELSE OnOutcome(self, in, id)
ProcessResult(self, in, id) ==
  LET cs == self.current_stage_ IN
  IF cs = NullStage
  THEN Result(cs, self.scenario_status_, STATUS_UNKNOWN, FALSE, FALSE, FALSE,
              "null")
  ELSE IF cs.type = NO_STAGE
  THEN Result(cs, STATUS_DONE, STATUS_DONE, FALSE, FALSE, FALSE,
              "sentinel_stage")
  ELSE OnOutcome(self, in, id)

\* the controller c as ProcessResult reads it
Self(c) ==
  [current_stage_ |-> current_stage_[c],
   stage_config_map_ |-> stage_config_map_[c],
   scenario_status_ |-> scenario_status_[c],
   blocks |-> config_[c].stage_config]

\* ------------------------------------------------------------------ observers
\* scenario A: stages [X, Y], both configured
ScenarioA(c) ==
  /\ config_[c].stage_type = <<"X", "Y">>
  /\ {"X", "Y"} \subseteq Range(config_[c].stage_config)

\* the answers of scenario A, call by call (a "-" is an answer not asked for)
ScriptA ==
  << [outcome |-> "RUNNING", next |-> "-", fac |-> "-"],
     [outcome |-> "RUNNING", next |-> "-", fac |-> "-"],
     [outcome |-> "FINISHED", next |-> "Y", fac |-> "ok"],
     [outcome |-> "FINISHED", next |-> NO_STAGE, fac |-> "-"] >>

\* runA when the calls so far are not scenario A
Off == <<"OFF">>

\* the answers a call consumed
Consumed(r, in) ==
  [outcome |-> IF r.ran THEN in.outcome ELSE "-",
   next |-> IF r.asked THEN in.next ELSE "-",
   fac |-> IF r.invoked THEN in.fac ELSE "-"]

NextRunA(run, r, in) ==
  IF run # Off /\ Len(run) < Len(ScriptA)
     /\ Consumed(r, in) = ScriptA[Len(run) + 1]
  THEN Append(run, r.ret)
  ELSE Off

NextLoopN(n, cs, r, in) ==
  IF n >= 0 /\ r.ran /\ in.outcome = "FINISHED" /\ in.next = cs.type
  THEN (IF n < MaxLoop THEN n + 1 ELSE n)
  ELSE -1

NextStuckN(n, r, in) ==
  IF n >= 0 /\ r.ran /\ in.outcome = "RUNNING"
  THEN (IF n < MaxStuck THEN n + 1 ELSE n)
  ELSE -1

\* a transition attempt: the stage reports FINISHED with a successor that is
\* not its own type, not the sentinel, and has an entry in the index
IsAttempt(self, r, in) ==
  /\ r.ran
  /\ in.outcome = "FINISHED"
  /\ in.next \notin {self.current_stage_.type, NO_STAGE}
  /\ ContainsKey(self.stage_config_map_, in.next)

\* The replay observer of two controllers built from one configuration: SYNC
\* while each call of one has been repeated, with the same answers, by the
\* other; PENDING while a call waits to be repeated; OUT once the calls differ.
NoAnswers == [outcome |-> "-", next |-> "-", fac |-> "-"]
ReplayIs(state, who, op, in) ==
  [state |-> state, who |-> who, op |-> op, in |-> in]
ReplayOut == ReplayIs("OUT", "-", "-", NoAnswers)
ReplaySync == ReplayIs("SYNC", "-", "-", NoAnswers)
NextReplay(rp, c, op, in) ==
  CASE rp.state = "SYNC" -> ReplayIs("PENDING", c, op, in)
    [] rp.state = "PENDING" ->
         IF rp.who # c /\ rp.op = op /\ rp.in = in THEN ReplaySync
         ELSE ReplayOut
    [] OTHER -> ReplayOut

NoCall ==
  [op |-> "none", pre |-> NullStage, ran |-> FALSE,
   asked |-> FALSE, invoked |-> FALSE, outcome |-> "-", next |-> "-",
   fac |-> "-", exit |-> "-", seenBefore |-> FALSE, calls |-> 0]

\* ------------------------------------------------------------------ Init
\* the configurations within the bounds
ScenarioConfigs ==
  [scenario_type : ScenarioTypes,
   stage_type : SeqsOf(StageTypes, 0, MaxDeclared),
   stage_config : SeqsOf(StageTypes, 0, MaxBlocks)]

\* one configuration of each kind Init tells apart: no declared stage, a
\* declared stage without a block, and stages [X, Y] with their blocks
SharedConfigs ==
  [scenario_type : ScenarioTypes, stage_type : {<<>>}, stage_config : {<<>>}]
  \cup
  [scenario_type : ScenarioTypes, stage_type : {<<"X">>},
   stage_config : {<<>>}]
  \cup
  [scenario_type : ScenarioTypes, stage_type : {<<"X", "Y">>},
   stage_config : {<<"X", "Y">>}]

\* the controllers the process hosts
Hosted == DOMAIN config_

\* the state after the constructors have run
Fresh ==
  /\ stage_config_map_ = [c \in Hosted |-> EmptyMap]
  /\ current_stage_ = [c \in Hosted |-> NullStage]
  /\ scenario_status_ = [c \in Hosted |-> STATUS_UNKNOWN]
  /\ factory_calls = [c \in Hosted |-> 0]
  /\ live = [c \in Hosted |-> {}]
  /\ planning_context = "NOT_SET"
  /\ aborted = FALSE
  /\ inited = [c \in Hosted |-> FALSE]
  /\ ret = [c \in Hosted |-> "-"]
  /\ lastInit = "-"
  /\ last = [c \in Hosted |-> NoCall]
  /\ seen = [c \in Hosted |-> FALSE]
  /\ runA = [c \in Hosted |-> Off]
  /\ loopN = [c \in Hosted |-> -1]
  /\ stuckN = [c \in Hosted |-> -1]
  /\ attempts = [c \in Hosted |-> 0]
  /\ replay = IF Cardinality(Hosted) = 2
                 /\ \A c1, c2 \in Hosted : config_[c1] = config_[c2]
              THEN ReplaySync ELSE ReplayOut

\* a process hosting one controller, built from any configuration
Constructed ==
  /\ config_ \in [{"s1"} -> ScenarioConfigs]
  /\ Fresh

\* a process hosting several controllers on one planning context
ConstructedShared ==
  /\ config_ \in [Scenarios -> SharedConfigs]
  /\ Fresh

\* Scenario::Init, called at most once per controller
Init(c) ==
  LET declared == config_[c].stage_type
      blocks == config_[c].stage_config
      map == BuildMap(blocks, 1, stage_config_map_[c])
      call(exit, fac) == [NoCall EXCEPT !.op = "Init",
                            !.pre = current_stage_[c], !.exit = exit,
                            !.invoked = (fac # "-"), !.fac = fac,
                            !.calls = factory_calls[c]]
  IN
  /\ ~aborted
  /\ ~inited[c]
  /\ lastInit' = c
  /\ \/ /\ declared = <<>>
        /\ aborted' = TRUE
        /\ last' = [last EXCEPT ![c] = call("abort_empty", "-")]
        /\ replay' = ReplayOut
        /\ UNCHANGED <<stage_config_map_, current_stage_, factory_calls, live,
                       planning_context, inited, runA, loopN, stuckN>>
     \/ /\ declared # <<>>
        /\ planning_context' =
             WriteScenarioType(planning_context, config_[c].scenario_type)
        /\ stage_config_map_' = [stage_config_map_ EXCEPT ![c] = map]
        /\ \/ /\ ~CheckCoverage(declared, map)
              /\ aborted' = TRUE
              /\ last' = [last EXCEPT ![c] = call("abort_coverage", "-")]
              /\ replay' = ReplayOut
              /\ UNCHANGED <<current_stage_, factory_calls, live, inited,
                             runA, loopN, stuckN>>
           \/ /\ CheckCoverage(declared, map)
              /\ \E fac \in FactoryResults :
                   LET new == CreateStage(blocks, map[declared[1]], fac,
                                          factory_calls[c] + 1) IN
                   /\ current_stage_' = [current_stage_ EXCEPT ![c] = new]
                   /\ live' = [live EXCEPT
                                 ![c] = Assign(live[c], current_stage_[c], new)]
                   /\ factory_calls' = [factory_calls EXCEPT ![c] = @ + 1]
                   /\ last' = [last EXCEPT ![c] = call("created", fac)]
                   /\ replay' = NextReplay(replay, c, "Init",
                                           [NoAnswers EXCEPT !.fac = fac])
                   /\ runA' = [runA EXCEPT ![c] =
                                 IF new # NullStage /\ ScenarioA(c)
                                 THEN <<>> ELSE Off]
                   /\ loopN' = [loopN EXCEPT ![c] =
                                  IF new # NullStage THEN 0 ELSE -1]
                   /\ stuckN' = [stuckN EXCEPT ![c] =
                                   IF new # NullStage /\ new.type # NO_STAGE
                                   THEN 0 ELSE -1]
              /\ inited' = [inited EXCEPT ![c] = TRUE]
              /\ UNCHANGED aborted
  /\ UNCHANGED <<config_, scenario_status_, ret, seen, attempts>>

\* one Process call of c in which the collaborators answer in
ProcessCall(c, in) ==
  LET cs == current_stage_[c] IN
  /\ \E r \in {ProcessResult(Self(c), in, factory_calls[c] + 1)} :
       /\ r.invoked => factory_calls[c] < MaxFactoryCalls
       /\ current_stage_' = [current_stage_ EXCEPT ![c] = r.stage]
       /\ scenario_status_' = [scenario_status_ EXCEPT ![c] = r.status]
       /\ ret' = [ret EXCEPT ![c] = r.ret]
       /\ factory_calls' = [factory_calls EXCEPT
                              ![c] = IF r.invoked THEN @ + 1 ELSE @]
       /\ live' = [live EXCEPT
                     ![c] = IF r.invoked THEN Assign(@, cs, r.stage) ELSE @]
       /\ seen' = [seen EXCEPT ![c] = @ \/ r.exit = "sentinel_next"]
       /\ last' = [last EXCEPT ![c] =
                     [op |-> "Process", pre |-> cs, ran |-> r.ran,
                      asked |-> r.asked, invoked |-> r.invoked,
                      outcome |-> Consumed(r, in).outcome,
                      next |-> Consumed(r, in).next,
                      fac |-> Consumed(r, in).fac, exit |-> r.exit,
                      seenBefore |-> seen[c], calls |-> factory_calls[c]]]
       /\ runA' = [runA EXCEPT ![c] = NextRunA(@, r, in)]
       /\ loopN' = [loopN EXCEPT ![c] = NextLoopN(@, cs, r, in)]
       /\ stuckN' = [stuckN EXCEPT ![c] = NextStuckN(@, r, in)]
       /\ attempts' = [attempts EXCEPT
                         ![c] = IF IsAttempt(Self(c), r, in) THEN @ + 1 ELSE @]
       /\ replay' = NextReplay(replay, c, "Process", in)
  /\ UNCHANGED <<config_, stage_config_map_, planning_context, aborted,
                 inited, lastInit>>

\* Scenario::Process, with the collaborators' answers drawn from all they
\* can give
Process(c) ==
  /\ ~aborted
  /\ \E outcome \in StageStatuses, next \in StageTypes, fac \in FactoryResults :
       ProcessCall(c, [outcome |-> outcome, next |-> next, fac |-> fac])

Next == \E c \in Hosted : Init(c) \/ Process(c)

\* one controller alone
Spec == Constructed /\ [][Next]_vars

\* several controllers sharing the planning context
SpecShared == ConstructedShared /\ [][Next]_vars

\* ------------------------------------------------------------------ claims
\* Init has been called on c: it returned, or it ended the process
InitCalled(c) == inited[c] \/ (aborted /\ lastInit = c)

\* a non-empty declared sequence, every declared type with a block
Covered(cfg) ==
  /\ cfg.stage_type # <<>>
  /\ Range(cfg.stage_type) \subseteq Range(cfg.stage_config)

\* C1 (as claimed): once a Process call has left through the sentinel exit
\* (FINISHED, NextStage = NO_STAGE), every later Process call of that
\* controller returns STATUS_DONE and does not invoke the factory.
C1_SentinelTermination ==
  \A c \in Hosted :
    (last[c].op = "Process" /\ last[c].seenBefore)
      => (ret[c] = STATUS_DONE /\ factory_calls[c] = last[c].calls)

\* the latest call of c saw FINISHED with a successor that is not the stage's
\* own type, not the sentinel and not a key of the index
C2_UnknownSuccessorCase(c) ==
  /\ last[c].op = "Process"
  /\ last[c].outcome = "FINISHED"
  /\ last[c].next \notin {last[c].pre.type, NO_STAGE, "-"}
  /\ ~ContainsKey(stage_config_map_[c], last[c].next)
\* C2: a call whose stage reports FINISHED with a successor that is not its
\* own type, not the sentinel and not a key of the index returns
\* STATUS_UNKNOWN, leaves the factory call count alone and keeps the instance.
C2_UnknownSuccessor ==
  \A c \in Hosted :
    C2_UnknownSuccessorCase(c)
      => /\ ret[c] = STATUS_UNKNOWN
         /\ factory_calls[c] = last[c].calls
         /\ current_stage_[c] = last[c].pre
C2_Witness ==
  \E c \in Hosted : C2_UnknownSuccessorCase(c) /\ last[c].pre # NullStage

C4_FatalInit ==
  \A c \in Hosted :
    ~Covered(config_[c])
      => /\ factory_calls[c] = 0
         /\ current_stage_[c] = NullStage
         /\ live[c] = {}
         /\ ~inited[c]
         /\ (lastInit = c => aborted)
C4_Witness ==
  \E c \in Hosted :
    /\ aborted /\ lastInit = c
    /\ config_[c].stage_type # <<>>
    /\ ~Covered(config_[c])
    /\ last[c].exit = "abort_coverage"

\* C5: a controller never owns more than one live stage: what is live is
\* exactly the instance the handle refers to.
C5_SingleLiveStage ==
  \A c \in Hosted :
    /\ Cardinality(live[c]) <= 1
    /\ live[c] = (IF current_stage_[c] = NullStage THEN {}
                  ELSE {current_stage_[c].id})
C5_Witness ==
  \E c \in Hosted :
    /\ last[c].op = "Process" /\ last[c].exit = "switched"
    /\ last[c].pre # NullStage
    /\ current_stage_[c].id # last[c].pre.id
    /\ live[c] = {current_stage_[c].id}

\* C6: after a Process call the handle is the instance it was, or a new
\* instance built from the block of the successor NextStage reported, or
\* absent; it becomes absent only when the factory gave nothing, and then the
\* call returned STATUS_UNKNOWN; a successor without a block leaves it as it was.
C6_FailedTransitionAtomic ==
  \A c \in Hosted :
    last[c].op = "Process"
      => LET pre == last[c].pre
             post == current_stage_[c] IN
         /\ \/ post = pre
            \/ /\ post # NullStage
               /\ last[c].outcome = "FINISHED"
               /\ post.type = last[c].next
               /\ post.cfg = stage_config_map_[c][last[c].next]
               /\ config_[c].stage_config[post.cfg] = last[c].next
               /\ post.id = factory_calls[c]
               /\ factory_calls[c] = last[c].calls + 1
            \/ /\ post = NullStage
               /\ last[c].fac = "fail"
               /\ ret[c] = STATUS_UNKNOWN
         /\ C2_UnknownSuccessorCase(c) => post = pre
C6_Witness ==
  \E c \in Hosted :
    /\ last[c].op = "Process"
    /\ last[c].pre # NullStage
    /\ current_stage_[c] # NullStage
    /\ current_stage_[c] # last[c].pre

\* what scenario A's four calls are to return
ExpectedA ==
  <<STATUS_PROCESSING, STATUS_PROCESSING, STATUS_PROCESSING, STATUS_DONE>>
\* C7: along scenario A (stages [X, Y] configured, the factory never failing,
\* X answering RUNNING, RUNNING, FINISHED(Y), Y answering FINISHED(NO_STAGE))
\* the calls return PROCESSING, PROCESSING, PROCESSING, DONE, with one factory
\* invocation in Init and the second in the third call.
C7_ScenarioA ==
  \A c \in Hosted :
    runA[c] # Off
      => /\ runA[c] = SubSeq(ExpectedA, 1, Len(runA[c]))
         /\ factory_calls[c] = (IF Len(runA[c]) >= 3 THEN 2 ELSE 1)
         /\ current_stage_[c].type = (IF Len(runA[c]) >= 3 THEN "Y" ELSE "X")
C7_Witness ==
  \E c \in Hosted : runA[c] # Off /\ Len(runA[c]) = Len(ScriptA)

\* C8: while every call since Init has seen the stage report FINISHED with
\* its own type as successor, every call returns STATUS_PROCESSING, the
\* factory has been invoked only by Init, and the instance is the one Init
\* installed.
C8_SelfLoop ==
  \A c \in Hosted :
    loopN[c] >= 1
      => /\ ret[c] = STATUS_PROCESSING
         /\ scenario_status_[c] = STATUS_PROCESSING
         /\ factory_calls[c] = 1
         /\ current_stage_[c] = last[c].pre
         /\ current_stage_[c].id = 1
C8_Witness ==
  \E c \in Hosted : loopN[c] = MaxLoop /\ MaxLoop >= 2

\* Two calls got the same answers when no collaborator that both asked
\* answered them differently (an answer not asked for is "-").
C9_SameAnswer(a, b) == a = "-" \/ b = "-" \/ a = b
\* the latest calls of c1 and c2 started alike and got the same answers
C9_SameCall(c1, c2) ==
  /\ config_[c1].stage_type = config_[c2].stage_type
  /\ config_[c1].stage_config = config_[c2].stage_config
  /\ inited[c1] /\ inited[c2]
  /\ last[c1].op = "Process" /\ last[c2].op = "Process"
  /\ last[c1].pre.type = last[c2].pre.type
  /\ C9_SameAnswer(last[c1].outcome, last[c2].outcome)
  /\ C9_SameAnswer(last[c1].next, last[c2].next)
  /\ C9_SameAnswer(last[c1].fac, last[c2].fac)
C9_DifferentHistories ==
  \E c1, c2 \in Hosted :
    /\ C9_SameCall(c1, c2)
    /\ last[c1].pre # NullStage
    /\ last[c1].pre.id # last[c2].pre.id
    /\ scenario_status_[c1] = STATUS_PROCESSING
    /\ last[c1].seenBefore /\ ~last[c2].seenBefore

\* C10: while the process runs, the scenario-identity field of the shared
\* planning context is the scenario type of the controller that most recently
\* called Init, and a step that is no Init call (a Process call) leaves it.
C10_ScenarioIdentity ==
  /\ [](~aborted /\ lastInit # "-"
          => planning_context = config_[lastInit].scenario_type)
  /\ [][(lastInit' = lastInit /\ ~aborted')
          => planning_context' = planning_context]_vars
C10_Witness ==
  \E c1, c2 \in Hosted :
    /\ c1 # c2
    /\ inited[c1] /\ inited[c2]
    /\ lastInit = c2
    /\ config_[c1].scenario_type # config_[c2].scenario_type
    /\ planning_context = config_[c2].scenario_type
    /\ last[c1].op = "Process" /\ last[c1].pre # NullStage
    /\ last[c2].op = "Process" /\ last[c2].pre # NullStage

\* a Process call of c is the latest call made to it
ProcessCalled(c) == last[c].op = "Process"

\* the latest call of c was a Process call in which the stage reported ERROR
C11_ErrorCall(c) == ProcessCalled(c) /\ last[c].outcome = "ERROR"

\* C11: a Process call in which the current stage reports ERROR returns
\* UNKNOWN, queries no successor and invokes no factory, and leaves the handle
\* on the instance it held; the next Process call executes that same instance.
C11_StageError ==
  /\ [](\A c \in Hosted :
          C11_ErrorCall(c) =>
            /\ ret[c] = STATUS_UNKNOWN
            /\ ~last[c].asked
            /\ ~last[c].invoked
            /\ factory_calls[c] = last[c].calls
            /\ current_stage_[c] = last[c].pre)
  /\ [][\A c \in Hosted :
          (C11_ErrorCall(c) /\ last'[c].op = "Process") =>
            /\ last'[c].ran
            /\ last'[c].pre = last[c].pre]_vars

\* an ERROR of the second stage, after one switch
C11_Witness ==
  \E c \in Hosted :
    /\ C11_ErrorCall(c)
    /\ last[c].pre.id = 2
    /\ current_stage_[c].id = 2

\* C12: while every call since Init had the stage report RUNNING, the latest
\* call returned PROCESSING, the factory has been invoked by Init only, and
\* the handle is still on the instance Init created.
C12_StuckStage ==
  \A c \in Hosted :
    stuckN[c] >= 1 =>
      /\ ProcessCalled(c)
      /\ ret[c] = STATUS_PROCESSING
      /\ factory_calls[c] = 1
      /\ current_stage_[c] = last[c].pre
      /\ current_stage_[c].id = 1
      /\ current_stage_[c].type = config_[c].stage_type[1]

C12_Witness == \E c \in Hosted : stuckN[c] = MaxStuck

\* C13: the factory is invoked once by Init, for the first declared type, and
\* then only by a Process call in which the stage reported FINISHED with a
\* successor that is not its own type, not the sentinel and is in the index;
\* NextStage is asked only after FINISHED; the invocations number one plus the
\* transition attempts.
C13_LazyConstruction ==
  \A c \in Hosted :
    /\ factory_calls[c] = IF inited[c] THEN 1 + attempts[c] ELSE 0
    /\ last[c].op = "Init" /\ inited[c] =>
         /\ last[c].invoked
         /\ factory_calls[c] = 1
         /\ current_stage_[c] # NullStage =>
              current_stage_[c].type = config_[c].stage_type[1]
    /\ ProcessCalled(c) =>
         /\ factory_calls[c] = last[c].calls + IF last[c].invoked THEN 1 ELSE 0
         /\ last[c].asked => last[c].outcome = "FINISHED"
         /\ last[c].invoked =>
              /\ last[c].outcome = "FINISHED"
              /\ last[c].next \notin {last[c].pre.type, NO_STAGE}
              /\ ContainsKey(stage_config_map_[c], last[c].next)

C13_Witness ==
  \E c \in Hosted :
    /\ ProcessCalled(c)
    /\ last[c].invoked
    /\ attempts[c] = 2
    /\ factory_calls[c] = 3

\* C14: a Process call executes a stage at most once, and it is the instance
\* held when the call began; it does execute it when that instance exists and
\* is not the sentinel; an instance the call installs is another one.
C14_OneExecution ==
  /\ [](\A c \in Hosted :
          ProcessCalled(c) =>
            /\ last[c].ran => last[c].pre # NullStage
            /\ (last[c].pre # NullStage /\ last[c].pre.type # NO_STAGE) =>
                 last[c].ran
            /\ last[c].exit = "switched" =>
                 /\ current_stage_[c].id # last[c].pre.id
                 /\ current_stage_[c].id = factory_calls[c])
  /\ [][\A c \in Hosted :
          (last'[c] # last[c] /\ last'[c].op = "Process") =>
            /\ last'[c].pre = current_stage_[c]
            /\ (current_stage_[c] # NullStage
                /\ current_stage_[c].type # NO_STAGE) => last'[c].ran]_vars

\* the call after a switch: it executed the instance the switch installed
C14_Witness ==
  \E c \in Hosted :
    /\ ProcessCalled(c)
    /\ last[c].ran
    /\ last[c].pre.id = 2
    /\ last[c].exit = "switched"

\* C15: a Process call made while the handle is absent returns UNKNOWN,
\* executes no stage, asks for no successor, invokes no factory and leaves
\* the handle absent.
C15_AbsentHandle ==
  \A c \in Hosted :
    (ProcessCalled(c) /\ last[c].pre = NullStage) =>
      /\ ret[c] = STATUS_UNKNOWN
      /\ ~last[c].ran
      /\ ~last[c].asked
      /\ ~last[c].invoked
      /\ factory_calls[c] = last[c].calls
      /\ current_stage_[c] = NullStage

\* the handle is absent because a transition failed to construct
C15_Witness ==
  \E c \in Hosted :
    /\ ProcessCalled(c)
    /\ last[c].pre = NullStage
    /\ factory_calls[c] = 2

\* C16: a Process call made while the current stage has the sentinel type
\* returns DONE, executes no stage, asks for no successor, invokes no factory
\* and leaves the handle as it is; so every call from then on returns DONE.
C16_SentinelStage ==
  \A c \in Hosted :
    /\ (ProcessCalled(c) /\ last[c].pre.type = NO_STAGE) =>
         /\ ret[c] = STATUS_DONE
         /\ scenario_status_[c] = STATUS_DONE
         /\ ~last[c].ran
         /\ ~last[c].asked
         /\ ~last[c].invoked
         /\ factory_calls[c] = last[c].calls
         /\ current_stage_[c] = last[c].pre
    /\ (ProcessCalled(c) /\ current_stage_[c].type = NO_STAGE) =>
         ret[c] = STATUS_DONE

C16_Witness ==
  \E c \in Hosted :
    /\ ProcessCalled(c)
    /\ last[c].pre.type = NO_STAGE
    /\ inited[c]

\* C17: after every Process call the stored scenario_status_ is the value the
\* call returned.
C17_StoredEqualsReturned ==
  \A c \in Hosted : ProcessCalled(c) => scenario_status_[c] = ret[c]

\* C18: a Process call returns DONE only when the stage held at its start has
\* the sentinel type, or the stage reported FINISHED with the sentinel as its
\* successor, or the stage reported FINISHED and the stage held at its end has
\* the sentinel type; no call with a RUNNING, ERROR or unrecognized outcome,
\* and no call with an absent handle, returns DONE.
C18_DoneNotSpurious ==
  \A c \in Hosted :
    ProcessCalled(c) =>
      /\ ret[c] = STATUS_DONE =>
           \/ last[c].pre.type = NO_STAGE
           \/ last[c].outcome = "FINISHED" /\ last[c].next = NO_STAGE
           \/ last[c].outcome = "FINISHED" /\ current_stage_[c].type = NO_STAGE
      /\ last[c].outcome \in {"RUNNING", "ERROR", "OTHER"} =>
           ret[c] # STATUS_DONE
      /\ last[c].pre = NullStage => ret[c] # STATUS_DONE

\* DONE by the sentinel successor of the second stage
C18_Witness ==
  \E c \in Hosted :
    /\ ProcessCalled(c)
    /\ ret[c] = STATUS_DONE
    /\ last[c].outcome = "FINISHED"
    /\ last[c].next = NO_STAGE
    /\ last[c].pre.id = 2

\* ------------------------------------------------- a well-behaved environment
\* The collaborators as C19 supposes them: the factory never fails, a stage
\* reports RUNNING or FINISHED only, and a successor is the sentinel or a
\* configured type further along a fixed order of the stage types.
ChainRank(t) == CASE t = "X" -> 1 [] t = "Y" -> 2 [] OTHER -> 3

ChainSuccessors(c) ==
  {t \in StageTypes :
     \/ t = NO_STAGE
     \/ /\ ChainRank(t) > ChainRank(current_stage_[c].type)
        /\ ContainsKey(stage_config_map_[c], t)}

\* a process hosting one controller whose Init will not abort
ConstructedChain ==
  /\ config_ \in [{"s1"} -> {cfg \in ScenarioConfigs :
                               cfg.stage_type # <<>> /\ Covered(cfg)}]
  /\ Fresh

\* Scenario::Init in which the factory gives an instance
ChainInit(c) ==
  /\ Init(c)
  /\ current_stage_'[c] # NullStage

\* the planning cycle calls Process until it has returned DONE
ChainCalling(c) ==
  /\ ~aborted
  /\ inited[c]
  /\ ret[c] # STATUS_DONE

\* a Process call in which the stage is still RUNNING
ChainRunning(c) ==
  /\ ChainCalling(c)
  /\ ProcessCall(c, [outcome |-> "RUNNING", next |-> NO_STAGE, fac |-> "ok"])

\* a Process call in which the stage has FINISHED
ChainFinished(c) ==
  /\ ChainCalling(c)
  /\ \E next \in ChainSuccessors(c) :
       ProcessCall(c, [outcome |-> "FINISHED", next |-> next, fac |-> "ok"])

NextChain ==
  \E c \in Hosted : ChainInit(c) \/ ChainRunning(c) \/ ChainFinished(c)

\* every stage finishes after finitely many RUNNING calls
SpecChain ==
  /\ ConstructedChain
  /\ [][NextChain]_vars
  /\ WF_vars(ChainFinished("s1"))

\* C19: in the well-behaved environment, once Init has succeeded the repeated
\* Process calls lead to a call that returns DONE, and every call before it
\* returns PROCESSING.
C19_EventualCompletion ==
  /\ inited["s1"] ~> (ProcessCalled("s1") /\ ret["s1"] = STATUS_DONE)
  /\ [](ProcessCalled("s1") =>
          ret["s1"] \in {STATUS_PROCESSING, STATUS_DONE})
  /\ [][(ProcessCalled("s1") /\ last'["s1"] # last["s1"]) =>
          ret["s1"] = STATUS_PROCESSING]_vars

\* DONE at the end of the chain X, Y
C19_Witness ==
  /\ ProcessCalled("s1")
  /\ ret["s1"] = STATUS_DONE
  /\ factory_calls["s1"] = 2
  /\ last["s1"].pre.type = "Y"

====
